---- MODULE Spec2Model ----
(***************************************************************************)
(* The ledger of App-fin: the class GerenciadorFinancas                    *)
(* (src/financas_logic.py) over its SQLite database, and the Flask routes  *)
(* of src/app_web.py that call it.                                         *)
(*                                                                         *)
(* The class body of GerenciadorFinancas defines several methods twice.    *)
(* Python binds a method name to the LAST definition in the class body, so *)
(* the methods modelled here are the ones Python calls:                    *)
(*   registrar_usuario     lines 315-328                                   *)
(*   criar_conta           lines 125-139                                   *)
(*   listar_contas_*       lines 141-167                                   *)
(*   adicionar_transacao   lines 349-363   (not 183-198)                   *)
(*   calcular_resumo       lines 365-385   (not 261-290)                   *)
(*   excluir_transacao     lines 427-438   (not 246-257)                   *)
(*   buscar_transacao_*    lines 440-458   (not 221-228)                   *)
(*   atualizar_transacao   lines 460-474   (not 230-244)                   *)
(* The tables are the ones _criar_tabelas creates (lines 31-79).           *)
(***************************************************************************)
EXTENDS Integers, Sequences, FiniteSets, TLC

VARIABLES
    db,       \* the database file: its three tables and the AUTOINCREMENT counters
    saida,    \* what the last call gave back to its caller
    conexoes, \* the number of connections to the database file that are open
    sessoes   \* the requests to edit a transaction that are under way

vars == <<db, saida, conexoes, sessoes>>

(***************************************************************************)
(* Bounds of the model.                                                    *)
(***************************************************************************)
MaxValor == 1      \* amounts range over -MaxValor..MaxValor, zero left out
MaxUsuarios == 2   \* at most this many e-mail addresses ask to register

Users == {1, 2}                       \* user ids that calls are made for
TransIds == {1, 2}                    \* ids of the rows of a populated ledger
Tipos == {"receita", "despesa"}
Categorias == {"mercado", "lazer"}
Descricoes == {"d1"}
Nomes == {"Carteira"}
TiposConta == {"carteira", "cartao_de_credito"}
Datas == {<<2024, 3, 5>>, <<2024, 4, 5>>, <<2025, 3, 5>>}   \* calendar dates
Valores == (-MaxValor..MaxValor) \ {0}
Emails == {<<"user", i>> : i \in 1..MaxUsuarios}
Senhas == {"p1"}
Salts == {"s1"}

(***************************************************************************)
(* Python and SQLite values and conversions.                               *)
(***************************************************************************)
\* abs() of Python
Abs(x) == IF x < 0 THEN -x ELSE x

\* An optional value: None is <<>>, Some(x) is <<x>>.
None == <<>>
Some(x) == <<x>>

\* Python truthiness of an optional integer: `if mes:` is false for None and 0.
Truthy(o) == o # None /\ o[1] # 0

\* The decimal digits of a natural number, most significant first: str(n).
RECURSIVE Digitos(_)
Digitos(n) == IF n < 10 THEN <<n>> ELSE Append(Digitos(n \div 10), n % 10)

\* f"{n:02d}" and strftime's two-digit fields, for n >= 0.
Fmt02(n) == IF n < 10 THEN <<0, n>> ELSE Digitos(n)

\* date.strftime('%Y-%m-%d'): the TEXT stored in column data, as its three
\* digit fields (the separators are constant).
strftime_Ymd(d) == <<Digitos(d[1]), Fmt02(d[2]), Fmt02(d[3])>>

\* SQLite strftime('%m', data) and strftime('%Y', data) on a stored date.
sql_strftime_m(data) == data[2]
sql_strftime_Y(data) == data[1]

\* bcrypt.hashpw(senha, salt): a salted one-way image of the password.
hashpw(senha, salt) == <<"bcrypt", salt, senha>>

\* Sum of f over a finite set.
RECURSIVE SomaValores(_)
SomaValores(S) ==
    IF S = {} THEN 0
    ELSE LET t == CHOOSE x \in S : TRUE
         IN t.valor + SomaValores(S \ {t})

\* SQL SUM(valor): NULL (None) over no rows, else the sum.
SQL_SUM(S) == IF S = {} THEN None ELSE Some(SomaValores(S))

\* Python's `x or 0.0` on the result of SUM.
OrZero(x) == IF x = None \/ x[1] = 0 THEN 0 ELSE x[1]

(***************************************************************************)
(* The schema (_criar_tabelas).                                            *)
(***************************************************************************)
Colunas ==
    [usuarios   |-> {"id", "email", "senha_hash"},
     contas     |-> {"id", "user_id", "nome", "saldo_inicial", "tipo_conta"},
     transacoes |-> {"id", "data", "tipo", "descricao", "valor", "categoria",
                     "user_id", "conta_id"}]

\* NOT NULL columns that have no DEFAULT: an INSERT must give them a value.
Obrigatorias ==
    [usuarios   |-> {"email", "senha_hash"},
     contas     |-> {"user_id", "nome"},
     transacoes |-> {"data", "tipo", "descricao", "valor", "categoria",
                     "user_id", "conta_id"}]

\* The value a column takes when an INSERT does not name it.
ValorDefault(coluna) == IF coluna = "saldo_inicial" THEN 0 ELSE "NULL"

Ids(linhas) == {l.id : l \in linhas}

\* The constraints of a schema whose email column is not UNIQUE. C15 must
\* tell it apart from the code's.
RestricoesSemUnique(d, tabela, cols, vals) ==
    /\ ("user_id" \in cols /\ tabela # "usuarios") => vals.user_id \in Ids(d.usuarios)
    /\ ("conta_id" \in cols /\ tabela = "transacoes") => vals.conta_id \in Ids(d.contas)

\* FOREIGN KEY and UNIQUE constraints, with PRAGMA foreign_keys = ON.
RestricoesOk(d, tabela, cols, vals) ==
    /\ ("user_id" \in cols /\ tabela # "usuarios") => vals.user_id \in Ids(d.usuarios)
    /\ ("conta_id" \in cols /\ tabela = "transacoes") => vals.conta_id \in Ids(d.contas)
    /\ tabela = "usuarios" => \A u \in d.usuarios : u.email # vals.email

\* cursor.execute("INSERT INTO tabela (cols) VALUES (...)") and conn.commit().
\* vals is a record over cols. falha: the store is unavailable (locked, I/O).
\* Gives the database after the statement and the exception raised, if any.
Insert(d, tabela, cols, vals, falha) ==
    IF falha THEN [db |-> d, exc |-> "OperationalError"]
    ELSE IF ~(cols \subseteq Colunas[tabela])
        THEN [db |-> d, exc |-> "OperationalError"]      \* no column named ...
    ELSE IF ~(Obrigatorias[tabela] \subseteq cols) \/ ~RestricoesOk(d, tabela, cols, vals)
        THEN [db |-> d, exc |-> "IntegrityError"]
    ELSE LET id == d.seq[tabela] + 1
             linha == [c \in Colunas[tabela] |->
                          IF c = "id" THEN id
                          ELSE IF c \in cols THEN vals[c] ELSE ValorDefault(c)]
         IN [db |-> [d EXCEPT ![tabela] = @ \cup {linha}, !.seq[tabela] = id],
             exc |-> "none"]

\* A WHERE clause that leaves out the user_id condition: the statement C3
\* must tell apart from the code's.
WhereSoId(linhas, id, user_id) == {t \in linhas : t.id = id}

\* The rows UPDATE/DELETE ... WHERE id = ? AND user_id = ? selects.
WhereIdUser(linhas, id, user_id) ==
    {t \in linhas : t.id = id /\ t.user_id = user_id}

(***************************************************************************)
(* Binding a call's arguments to a method's parameters (Python raises      *)
(* TypeError when they do not fit).                                        *)
(***************************************************************************)
Params ==
    [adicionar_transacao |-> <<"tipo", "descricao", "valor", "categoria", "user_id">>,
     atualizar_transacao |-> <<"transacao_id", "tipo", "descricao", "valor",
                               "categoria", "user_id">>,
     excluir_transacao   |-> <<"transacao_id", "user_id">>,
     criar_conta         |-> <<"user_id", "nome", "saldo_inicial", "tipo_conta",
                               "limite", "data_fechamento", "data_vencimento">>]

\* Parameters with a default value.
Opcionais ==
    [adicionar_transacao |-> {},
     atualizar_transacao |-> {},
     excluir_transacao   |-> {},
     criar_conta         |-> {"limite", "data_fechamento", "data_vencimento"}]

Range(s) == {s[i] : i \in 1..Len(s)}

\* A call with n positional arguments and the keyword arguments kw binds.
Liga(metodo, n, kw) ==
    LET p == Params[metodo]
        pos == {p[i] : i \in 1..(IF n < Len(p) THEN n ELSE Len(p))}
    IN /\ n <= Len(p)
       /\ kw \subseteq Range(p)
       /\ kw \cap pos = {}
       /\ Range(p) \ Opcionais[metodo] \subseteq pos \cup kw

(***************************************************************************)
(* The methods of GerenciadorFinancas. Each gives the database after the   *)
(* call, the value returned (val), the exception the method caught and     *)
(* printed (capturada) and the exception it let through (lancada).         *)
(***************************************************************************)
Resultado(d, val, capturada, lancada) ==
    [db |-> d, val |-> val, capturada |-> capturada, lancada |-> lancada]

\* registrar_usuario: only sqlite3.IntegrityError is caught.
registrar_usuario(d, email, senha_plana, salt, falha) ==
    LET senha_hash == hashpw(senha_plana, salt)
        r == Insert(d, "usuarios", {"email", "senha_hash"},
                    [email |-> email, senha_hash |-> senha_hash], falha)
    IN IF r.exc = "none" THEN Resultado(r.db, "True", "none", "none")
       ELSE IF r.exc = "IntegrityError" THEN Resultado(d, "False", r.exc, "none")
       ELSE Resultado(d, "None", "none", r.exc)

\* criar_conta: the INSERT names limite, data_fechamento and data_vencimento.
criar_conta(d, user_id, nome, saldo_inicial, tipo_conta, extras, falha) ==
    LET r == Insert(d, "contas",
                    {"user_id", "nome", "saldo_inicial", "tipo_conta",
                     "limite", "data_fechamento", "data_vencimento"},
                    [user_id |-> user_id, nome |-> nome,
                     saldo_inicial |-> saldo_inicial, tipo_conta |-> tipo_conta,
                     limite |-> extras.limite,
                     data_fechamento |-> extras.data_fechamento,
                     data_vencimento |-> extras.data_vencimento], falha)
    IN IF r.exc = "none" THEN Resultado(r.db, "True", "none", "none")
       ELSE Resultado(d, "False", r.exc, "none")

\* listar_contas_por_usuario: SELECT * FROM contas WHERE user_id = ?, the rows
\* in the order of their ids.
RECURSIVE PorId(_)
PorId(linhas) ==
    IF linhas = {} THEN <<>>
    ELSE LET l == CHOOSE x \in linhas : \A y \in linhas : x.id <= y.id
         IN <<l>> \o PorId(linhas \ {l})

listar_contas_por_usuario(d, user_id) ==
    PorId({c \in d.contas : c.user_id = user_id})

\* The sum without the conta_id condition: every account would be given the
\* sum of all the user's transactions. C2 must tell it apart from the code's.
SomaDoUsuario(d, user_id, conta_id) ==
    SQL_SUM({t \in d.transacoes : t.user_id = user_id})

\* SELECT SUM(valor) FROM transacoes WHERE user_id = ? AND conta_id = ?
SomaDaConta(d, user_id, conta_id) ==
    SQL_SUM({t \in d.transacoes : t.user_id = user_id /\ t.conta_id = conta_id})

\* listar_contas_com_saldo: one {id, nome, saldo_atual} per account of the user.
listar_contas_com_saldo(d, user_id) ==
    LET contas == listar_contas_por_usuario(d, user_id)
    IN [i \in 1..Len(contas) |->
           LET conta == contas[i]
               soma_transacoes == OrZero(SomaDaConta(d, user_id, conta.id))
           IN [id |-> conta.id, nome |-> conta.nome,
               saldo_atual |-> conta.saldo_inicial + soma_transacoes]]

\* The sign adicionar_transacao and atualizar_transacao give the amount:
\* `if tipo == 'despesa': valor = -abs(valor)`, and nothing for another tipo.
valor_com_sinal(tipo, valor) == IF tipo = "despesa" THEN -Abs(valor) ELSE valor

\* An INSERT that names conta_id and gives it the id of an account whoever
\* owns it, here the first of the table. C17 must tell it apart from the
\* code's.
adicionar_em_conta_qualquer(d, hoje, tipo, descricao, valor, categoria, user_id, falha) ==
    LET conta_id == IF d.contas = {} THEN 0
                    ELSE CHOOSE i \in Ids(d.contas) : \A j \in Ids(d.contas) : i <= j
        r == Insert(d, "transacoes",
                    {"data", "tipo", "descricao", "valor", "categoria", "user_id",
                     "conta_id"},
                    [data |-> strftime_Ymd(hoje), tipo |-> tipo,
                     descricao |-> descricao, valor |-> valor_com_sinal(tipo, valor),
                     categoria |-> categoria, user_id |-> user_id,
                     conta_id |-> conta_id], falha)
    IN IF r.exc = "none" THEN Resultado(r.db, "None", "none", "none")
       ELSE Resultado(d, "None", r.exc, "none")

\* adicionar_transacao(tipo, descricao, valor, categoria, user_id): the INSERT
\* names no conta_id. Every exception is caught and printed; returns None.
adicionar_transacao(d, hoje, tipo, descricao, valor, categoria, user_id, falha) ==
    LET data == strftime_Ymd(hoje)
        r == Insert(d, "transacoes",
                    {"data", "tipo", "descricao", "valor", "categoria", "user_id"},
                    [data |-> data, tipo |-> tipo, descricao |-> descricao,
                     valor |-> valor_com_sinal(tipo, valor),
                     categoria |-> categoria, user_id |-> user_id], falha)
    IN IF r.exc = "none" THEN Resultado(r.db, "None", "none", "none")
       ELSE Resultado(d, "None", r.exc, "none")

\* A period that compares the month only. C10 must tell it apart from the
\* code's.
NoMes(t, mes, ano) == Truthy(mes) => sql_strftime_m(t.data) = Fmt02(mes[1])

\* The WHERE clause of the queries over a period: `if mes:` and `if ano:` add
\* a comparison of strftime('%m'/'%Y', data) with f"{mes:02d}" / str(ano).
NoPeriodo(t, mes, ano) ==
    /\ Truthy(mes) => sql_strftime_m(t.data) = Fmt02(mes[1])
    /\ Truthy(ano) => sql_strftime_Y(t.data) = Digitos(ano[1])

\* SELECT SUM(valor) FROM transacoes WHERE tipo = ? AND user_id = ? [period]
SomaDoTipo(d, tipo, user_id, mes, ano) ==
    SQL_SUM({t \in d.transacoes :
                t.tipo = tipo /\ t.user_id = user_id /\ NoPeriodo(t, mes, ano)})

\* calcular_resumo -> (total_receitas, total_despesas, saldo)
calcular_resumo(d, user_id, mes, ano) ==
    LET total_receitas == OrZero(SomaDoTipo(d, "receita", user_id, mes, ano))
        total_despesas == OrZero(SomaDoTipo(d, "despesa", user_id, mes, ano))
        saldo == total_receitas + total_despesas
    IN <<total_receitas, total_despesas, saldo>>

\* A delete that selects its row by id alone. C18 must tell it apart from
\* the code's.
excluir_so_por_id(d, transacao_id, user_id, falha) ==
    IF falha THEN Resultado(d, "False", "OperationalError", "none")
    ELSE LET alvo == {t \in d.transacoes : t.id = transacao_id}
         IN Resultado([d EXCEPT !.transacoes = @ \ alvo],
                      IF alvo # {} THEN "True" ELSE "False", "none", "none")

\* A delete that reports True whenever the statement ran, whether or not a
\* row was deleted. C4 must tell it apart from the code's.
excluir_sem_rowcount(d, transacao_id, user_id, falha) ==
    IF falha THEN Resultado(d, "False", "OperationalError", "none")
    ELSE Resultado([d EXCEPT !.transacoes =
                        @ \ WhereIdUser(d.transacoes, transacao_id, user_id)],
                   "True", "none", "none")

\* excluir_transacao: DELETE ... WHERE id = ? AND user_id = ?; rowcount > 0.
excluir_transacao(d, transacao_id, user_id, falha) ==
    IF falha THEN Resultado(d, "False", "OperationalError", "none")
    ELSE LET alvo == WhereIdUser(d.transacoes, transacao_id, user_id)
             rowcount == Cardinality(alvo)
         IN Resultado([d EXCEPT !.transacoes = @ \ alvo],
                      IF rowcount > 0 THEN "True" ELSE "False", "none", "none")

\* atualizar_transacao: UPDATE transacoes SET tipo, descricao, valor, categoria
\* WHERE id = ? AND user_id = ?; rowcount > 0.
atualizar_transacao(d, transacao_id, tipo, descricao, valor, categoria, user_id, falha) ==
    IF falha THEN Resultado(d, "False", "OperationalError", "none")
    ELSE LET alvo == WhereIdUser(d.transacoes, transacao_id, user_id)
             rowcount == Cardinality(alvo)
             novo(t) == [t EXCEPT !.tipo = tipo, !.descricao = descricao,
                                  !.valor = valor_com_sinal(tipo, valor),
                                  !.categoria = categoria]
         IN Resultado([d EXCEPT !.transacoes =
                          {IF t \in alvo THEN novo(t) ELSE t : t \in @}],
                      IF rowcount > 0 THEN "True" ELSE "False", "none", "none")

(***************************************************************************)
(* The queries that return rows. SQLite reads transacoes in the order of   *)
(* its rowid (the table has no index on user_id) and its sorter keeps that *)
(* order among rows whose ORDER BY keys are equal.                         *)
(***************************************************************************)
\* SQLite's BINARY collation on the category labels: 'lazer' < 'mercado'.
OrdemBinaria(categoria) == IF categoria = "lazer" THEN 1 ELSE 2

\* The rows the query of relatorio_por_categoria selects, with the tipo
\* condition left out. C11 must tell it apart from the code's.
LinhasDoPeriodo(d, user_id, mes, ano) ==
    {t \in d.transacoes : t.user_id = user_id /\ NoPeriodo(t, mes, ano)}

\* WHERE tipo = 'despesa' AND user_id = ? [period]
DespesasDoPeriodo(d, user_id, mes, ano) ==
    {t \in d.transacoes :
        t.tipo = "despesa" /\ t.user_id = user_id /\ NoPeriodo(t, mes, ano)}

\* GROUP BY categoria: one (categoria, SUM(valor)) per label that has a row.
GruposPorCategoria(linhas) ==
    {[categoria |-> c,
      total |-> SomaValores({t \in linhas : t.categoria = c})] :
        c \in {t.categoria : t \in linhas}}

\* ORDER BY total ASC over the groups, which GROUP BY hands over in the order
\* of their labels.
RECURSIVE OrdenaPorTotal(_)
OrdenaPorTotal(grupos) ==
    IF grupos = {} THEN <<>>
    ELSE LET g == CHOOSE x \in grupos : \A y \in grupos :
                      \/ x.total < y.total
                      \/ /\ x.total = y.total
                         /\ OrdemBinaria(x.categoria) <= OrdemBinaria(y.categoria)
         IN <<g>> \o OrdenaPorTotal(grupos \ {g})

\* relatorio_por_categoria -> rows (categoria, total)
relatorio_por_categoria(d, user_id, mes, ano) ==
    OrdenaPorTotal(GruposPorCategoria(DespesasDoPeriodo(d, user_id, mes, ano)))

\* The TEXT of a stored date, 'YYYY-MM-DD', as its characters: a digit is
\* itself and '-', which sorts before every digit, is -1.
TextoDaData(data) == data[1] \o <<-1>> \o data[2] \o <<-1>> \o data[3]

\* a < b for two texts, character by character (BINARY collation).
RECURSIVE MenorTexto(_, _)
MenorTexto(a, b) ==
    IF b = <<>> THEN FALSE
    ELSE IF a = <<>> THEN TRUE
    ELSE IF Head(a) # Head(b) THEN Head(a) < Head(b)
    ELSE MenorTexto(Tail(a), Tail(b))

DataMenor(d1, d2) == MenorTexto(TextoDaData(d1), TextoDaData(d2))

\* The rows of every user in the period: the WHERE clause of ler_transacoes
\* with the user_id condition left out. C12 must tell it apart from the code's.
LinhasDeTodos(d, user_id, mes, ano) ==
    {t \in d.transacoes : NoPeriodo(t, mes, ano)}

\* WHERE t.user_id = ? [period]
LinhasLidas(d, user_id, mes, ano) ==
    {t \in d.transacoes : t.user_id = user_id /\ NoPeriodo(t, mes, ano)}

\* SELECT t.*, c.nome as conta_nome FROM transacoes t JOIN contas c
\* ON t.conta_id = c.id: the rows of t that have an account, in the order of
\* their ids, each with the name of its account.
Junta(d, linhas) ==
    LET tem_conta == {t \in linhas : \E c \in d.contas : c.id = t.conta_id}
        ts == PorId(tem_conta)
    IN [i \in 1..Len(ts) |->
           LET t == ts[i]
               c == CHOOSE c \in d.contas : c.id = t.conta_id
           IN [id |-> t.id, data |-> t.data, tipo |-> t.tipo,
               descricao |-> t.descricao, valor |-> t.valor,
               categoria |-> t.categoria, user_id |-> t.user_id,
               conta_id |-> t.conta_id, conta_nome |-> c.nome]]

\* s without its i-th element.
Sem(s, i) == SubSeq(s, 1, i - 1) \o SubSeq(s, i + 1, Len(s))

\* An ordering by date that puts the oldest first. C13 must tell it apart
\* from the code's.
RECURSIVE OrdenaPorDataAsc(_)
OrdenaPorDataAsc(s) ==
    IF s = <<>> THEN <<>>
    ELSE LET i == CHOOSE i \in 1..Len(s) :
                      /\ \A j \in 1..Len(s) : ~DataMenor(s[j].data, s[i].data)
                      /\ \A j \in 1..(i - 1) : DataMenor(s[i].data, s[j].data)
         IN <<s[i]>> \o OrdenaPorDataAsc(Sem(s, i))

\* ORDER BY t.data DESC: the newest first, rows of one date in the order the
\* scan gave them.
RECURSIVE OrdenaPorDataDesc(_)
OrdenaPorDataDesc(s) ==
    IF s = <<>> THEN <<>>
    ELSE LET i == CHOOSE i \in 1..Len(s) :
                      /\ \A j \in 1..Len(s) : ~DataMenor(s[i].data, s[j].data)
                      /\ \A j \in 1..(i - 1) : DataMenor(s[j].data, s[i].data)
         IN <<s[i]>> \o OrdenaPorDataDesc(Sem(s, i))

\* ler_transacoes -> rows of transacoes with conta_nome
ler_transacoes(d, user_id, mes, ano) ==
    OrdenaPorDataDesc(Junta(d, LinhasLidas(d, user_id, mes, ano)))

(***************************************************************************)
(* Calls of the methods by a client of the class.                          *)
(***************************************************************************)
\* saida: the operation called, its arguments, and what the caller got: val
\* holds the value under the name of its kind (retorno: "True", "False" or
\* "None"; lista; resumo; flash).
Saida(op, args, val, r) ==
    [op |-> op, args |-> args, val |-> val,
     capturada |-> r.capturada, lancada |-> r.lancada]

SemErro == [capturada |-> "none", lancada |-> "none"]

Op_registrar_usuario ==
    \E email \in Emails, senha \in Senhas, salt \in Salts, falha \in BOOLEAN :
        LET r == registrar_usuario(db, email, senha, salt, falha)
        IN /\ db' = r.db
           /\ saida' = Saida("registrar_usuario", [email |-> email],
                            [retorno |-> r.val], r)
           /\ UNCHANGED <<conexoes, sessoes>>

Op_criar_conta ==
    \E u \in Users, nome \in Nomes, saldo \in {5}, tipo \in TiposConta,
       falha \in BOOLEAN :
        LET extras == [limite |-> None, data_fechamento |-> None,
                       data_vencimento |-> None]
            r == criar_conta(db, u, nome, saldo, tipo, extras, falha)
        IN /\ db' = r.db
           /\ saida' = Saida("criar_conta", [user_id |-> u, tipo_conta |-> tipo],
                            [retorno |-> r.val], r)
           /\ UNCHANGED <<conexoes, sessoes>>

Op_adicionar_transacao(cats, dias) ==
    \E hoje \in dias, tipo \in Tipos, descricao \in Descricoes, valor \in Valores,
       categoria \in cats, u \in Users, falha \in BOOLEAN :
        LET r == adicionar_transacao(db, hoje, tipo, descricao, valor, categoria,
                                     u, falha)
        IN /\ db' = r.db
           /\ saida' = Saida("adicionar_transacao", [user_id |-> u],
                            [retorno |-> r.val], r)
           /\ UNCHANGED <<conexoes, sessoes>>

Op_atualizar_transacao(cats) ==
    \E id \in TransIds, tipo \in Tipos, descricao \in Descricoes, valor \in Valores,
       categoria \in cats, u \in Users, falha \in BOOLEAN :
        LET r == atualizar_transacao(db, id, tipo, descricao, valor, categoria,
                                     u, falha)
        IN /\ db' = r.db
           /\ saida' = Saida("atualizar_transacao",
                            [transacao_id |-> id, user_id |-> u],
                            [retorno |-> r.val], r)
           /\ UNCHANGED <<conexoes, sessoes>>

Op_excluir_transacao ==
    \E id \in TransIds, u \in Users, falha \in BOOLEAN :
        LET r == excluir_transacao(db, id, u, falha)
        IN /\ db' = r.db
           /\ saida' = Saida("excluir_transacao",
                            [transacao_id |-> id, user_id |-> u],
                            [retorno |-> r.val], r)
           /\ UNCHANGED <<conexoes, sessoes>>

Op_listar_contas_com_saldo ==
    \E u \in Users :
        /\ db' = db
        /\ saida' = Saida("listar_contas_com_saldo", [user_id |-> u],
                          [lista |-> listar_contas_com_saldo(db, u)], SemErro)
        /\ UNCHANGED <<conexoes, sessoes>>

Meses == {None, Some(3)}
Anos == {None, Some(2024)}

Op_calcular_resumo ==
    \E u \in Users, mes \in Meses, ano \in Anos :
        /\ db' = db
        /\ saida' = Saida("calcular_resumo", [user_id |-> u, mes |-> mes, ano |-> ano],
                          [resumo |-> calcular_resumo(db, u, mes, ano)], SemErro)
        /\ UNCHANGED <<conexoes, sessoes>>

Op_ler_transacoes ==
    \E u \in Users, mes \in Meses, ano \in Anos :
        /\ db' = db
        /\ saida' = Saida("ler_transacoes",
                          [user_id |-> u, mes |-> mes, ano |-> ano],
                          [transacoes |-> ler_transacoes(db, u, mes, ano)], SemErro)
        /\ UNCHANGED <<conexoes, sessoes>>

Op_relatorio_por_categoria ==
    \E u \in Users, mes \in Meses, ano \in Anos :
        /\ db' = db
        /\ saida' = Saida("relatorio_por_categoria",
                          [user_id |-> u, mes |-> mes, ano |-> ano],
                          [relatorio |-> relatorio_por_categoria(db, u, mes, ano)],
                          SemErro)
        /\ UNCHANGED <<conexoes, sessoes>>

(***************************************************************************)
(* Connections. connect() opens the file with sqlite3.connect and then     *)
(* runs _criar_tabelas, which re-raises what it catches; close() closes    *)
(* the connection if there is one. passo names the step that raises:       *)
(* "none", "sqlite3.connect" or "_criar_tabelas".                          *)
(***************************************************************************)
PassosDeConnect == {"none", "sqlite3.connect", "_criar_tabelas"}

\* connect(): the open connections after it, whether self.conn is set, and
\* the exception raised.
connect(abertas, passo) ==
    IF passo = "sqlite3.connect"
        THEN [abertas |-> abertas, conn |-> FALSE, exc |-> "OperationalError"]
    ELSE [abertas |-> abertas + 1, conn |-> TRUE,
          exc |-> IF passo = "_criar_tabelas" THEN "OperationalError" ELSE "none"]

\* close(): `if self.conn: self.conn.close()`
close(abertas, conn) == IF conn THEN abertas - 1 ELSE abertas

\* The handlers of the routes and load_user: gerenciador is created and
\* connected inside try, and `finally: if gerenciador: gerenciador.close()`.
rota_com_finally(abertas, passo) ==
    LET g == connect(abertas, passo)
    IN close(g.abertas, g.conn)

\* Start-up of app_web.py: connect() and close() are both inside the try,
\* and the except clause only prints.
inicio(abertas, passo) ==
    LET g == connect(abertas, passo)
    IN IF g.exc = "none" THEN close(g.abertas, g.conn) ELSE g.abertas

(***************************************************************************)
(* The routes of app_web.py, for a logged-in user (current_user.id). A     *)
(* route answers with a flash message <<text, category>>; the texts are    *)
(* written here without their accents.                                     *)
(***************************************************************************)
\* float(texto.replace(',', '.')): a text is numeric, empty or something else.
Numero(n) == [forma |-> "numero", n |-> n]
TextoVazio == [forma |-> "vazio", n |-> 0]
TextoInvalido == [forma |-> "outro", n |-> 0]
float_ok(texto) == texto.forma = "numero"

\* A form field that the request does not carry: request.form[...] raises
\* BadRequestKeyError, an Exception.
AUSENTE == "<ausente>"

Resposta(d, flash, capturada) ==
    [db |-> d, val |-> flash, capturada |-> capturada, lancada |-> "none"]

FlashAdicionada == <<"Transacao adicionada com sucesso!", "success">>
FlashErroAdicionar == <<"Erro ao adicionar transacao.", "danger">>
FlashContaNaoSelecionada == <<"Erro: Conta nao selecionada.", "danger">>
FlashContaCriada == <<"Conta criada com sucesso!", "success">>
FlashNomeTipoObrigatorios == <<"Nome e Tipo da Conta sao obrigatorios.", "danger">>
FlashErroCriarConta == <<"Erro ao criar conta: ...", "danger">>
FlashExcluida == <<"Transacao excluida com sucesso.", "success">>
FlashErroExcluir == <<"Erro ao excluir transacao.", "danger">>

\* A route without the validation of conta_id. C7 must tell it apart from
\* the code's.
sem_validacao_de_conta(conta_id) == FALSE

\* The validation of adicionar(): `if not conta_id`.
conta_nao_selecionada(conta_id) == conta_id = ""

\* adicionar(): POST /adicionar
rota_adicionar(d, user_id, form, hoje, falha) ==
    IF ~float_ok(form.valor)
        THEN Resposta(d, FlashErroAdicionar, "ValueError")
    ELSE IF form.conta_id = AUSENTE
        THEN Resposta(d, FlashErroAdicionar, "BadRequestKeyError")
    ELSE IF conta_nao_selecionada(form.conta_id)
        THEN Resposta(d, FlashContaNaoSelecionada, "none")
    ELSE IF ~Liga("adicionar_transacao", 0,
                  {"tipo", "descricao", "valor", "categoria", "user_id", "conta_id"})
        THEN Resposta(d, FlashErroAdicionar, "TypeError")
    ELSE LET r == adicionar_transacao(d, hoje, form.tipo, form.descricao,
                                      form.valor.n, form.categoria, user_id, falha)
         IN Resposta(r.db, FlashAdicionada, "none")

\* contas(): POST /contas; the result of criar_conta is not looked at.
rota_contas(d, user_id, form, falha) ==
    IF form.nome = "" \/ form.tipo_conta = ""
        THEN Resposta(d, FlashNomeTipoObrigatorios, "none")
    ELSE LET saldo_inicial_str ==
                 IF form.saldo_inicial = TextoVazio THEN Numero(0)
                 ELSE form.saldo_inicial
         IN IF ~float_ok(saldo_inicial_str)
                THEN Resposta(d, FlashErroCriarConta, "ValueError")
            ELSE LET cartao == form.tipo_conta = "cartao_de_credito"
                     saldo_inicial == IF cartao THEN 0 ELSE saldo_inicial_str.n
                     extras == [limite |-> IF cartao THEN form.limite ELSE None,
                                data_fechamento |-> None,
                                data_vencimento |-> None]
                 IN IF ~Liga("criar_conta", 7, {})
                        THEN Resposta(d, FlashErroCriarConta, "TypeError")
                    ELSE LET r == criar_conta(d, user_id, form.nome, saldo_inicial,
                                              form.tipo_conta, extras, falha)
                         IN Resposta(r.db, FlashContaCriada, "none")

\* excluir_transacao(transacao_id): POST /excluir/<transacao_id>
rota_excluir_transacao(d, transacao_id, user_id, falha) ==
    IF ~Liga("excluir_transacao", 2, {})
        THEN Resposta(d, <<"Ocorreu um erro ao excluir.", "danger">>, "TypeError")
    ELSE LET r == excluir_transacao(d, transacao_id, user_id, falha)
         IN Resposta(r.db, IF r.val = "True" THEN FlashExcluida ELSE FlashErroExcluir,
                     "none")

\* sum(...) over a list of numbers.
RECURSIVE SomaDaLista(_)
SomaDaLista(ns) == IF ns = <<>> THEN 0 ELSE Head(ns) + SomaDaLista(Tail(ns))

\* [c for c in contas_com_saldo if cond(c)] reading c['tipo_conta']: the
\* entries of listar_contas_com_saldo are dicts, and c[k] raises KeyError when
\* the dict has no key k.
TemChave(c, k) == k \in DOMAIN c

\* index(): GET /?mes=&ano= . current_user.contas is what load_user read with
\* listar_contas_por_usuario.
rota_index(d, user_id, mes, ano) ==
    IF listar_contas_por_usuario(d, user_id) = <<>>
        THEN [status |-> 302, location |-> "contas"]
    ELSE LET resumo == calcular_resumo(d, user_id, Some(mes), Some(ano))
             contas_com_saldo == listar_contas_com_saldo(d, user_id)
             n == Len(contas_com_saldo)
         IN IF \E i \in 1..n : ~TemChave(contas_com_saldo[i], "tipo_conta")
                THEN [status |-> 500, capturada |-> "KeyError"]
            ELSE LET contas_dinheiro ==
                         SelectSeq(contas_com_saldo,
                                   LAMBDA c : c.tipo_conta # "cartao_de_credito")
                     contas_cartao ==
                         SelectSeq(contas_com_saldo,
                                   LAMBDA c : c.tipo_conta = "cartao_de_credito")
                 IN [status |-> 200,
                     resumo |-> resumo,
                     saldo_total_dinheiro |->
                         SomaDaLista([i \in 1..Len(contas_dinheiro) |->
                                         contas_dinheiro[i].saldo_atual]),
                     total_faturas |->
                         SomaDaLista([i \in 1..Len(contas_cartao) |->
                                         Abs(contas_cartao[i].saldo_atual)]),
                     transacoes |-> ler_transacoes(d, user_id, Some(mes), Some(ano))]

FormsAdicionar ==
    [tipo : Tipos, descricao : Descricoes,
     valor : {Numero(v) : v \in Valores} \cup {TextoInvalido},
     categoria : {"mercado"}, conta_id : {AUSENTE, "", "1"}]

FormsContas ==
    [nome : {""} \cup Nomes, saldo_inicial : {Numero(5), TextoVazio, TextoInvalido},
     tipo_conta : {""} \cup TiposConta, limite : {None}]

Rota_adicionar(dias) ==
    \E u \in Ids(db.usuarios), form \in FormsAdicionar, hoje \in dias,
       falha \in BOOLEAN :
        LET r == rota_adicionar(db, u, form, hoje, falha)
        IN /\ db' = r.db
           /\ saida' = Saida("adicionar", [user_id |-> u, form |-> form, hoje |-> hoje],
                            [flash |-> r.val], r)
           /\ conexoes' = rota_com_finally(conexoes, "none")
           /\ UNCHANGED sessoes

Rota_contas ==
    \E u \in Ids(db.usuarios), form \in FormsContas, falha \in BOOLEAN :
        LET r == rota_contas(db, u, form, falha)
        IN /\ db' = r.db
           /\ saida' = Saida("contas", [user_id |-> u, form |-> form],
                            [flash |-> r.val], r)
           /\ conexoes' = rota_com_finally(conexoes, "none")
           /\ UNCHANGED sessoes

Rota_excluir_transacao ==
    \E u \in Ids(db.usuarios), id \in TransIds, falha \in BOOLEAN :
        LET r == rota_excluir_transacao(db, id, u, falha)
        IN /\ db' = r.db
           /\ saida' = Saida("rota_excluir_transacao",
                            [transacao_id |-> id, user_id |-> u],
                            [flash |-> r.val], r)
           /\ conexoes' = rota_com_finally(conexoes, "none")
           /\ UNCHANGED sessoes

Rota_index ==
    \E u \in Ids(db.usuarios), mes \in {3, 4}, ano \in {2024} :
        /\ db' = db
        /\ saida' = Saida("index", [user_id |-> u, mes |-> Some(mes), ano |-> Some(ano)],
                          [pagina |-> rota_index(db, u, mes, ano)], SemErro)
        /\ conexoes' = rota_com_finally(conexoes, "none")
        /\ UNCHANGED sessoes

(***************************************************************************)
(* Requests to edit a transaction. editar_transacao() looks the            *)
(* transaction up and then, for a POST, updates it; the two statements are *)
(* separate, and requests of several sessions are served at once.          *)
(***************************************************************************)
Sessoes == {1, 2}

\* No request is under way.
SemPedidos == [s \in Sessoes |-> [pc |-> "inicio"]]

FlashNaoEncontrada == <<"Transacao nao encontrada ou nao pertence a voce.", "danger">>
FlashAtualizada == <<"Transacao atualizada com sucesso!", "success">>
FlashErroAtualizar == <<"Erro ao atualizar transacao.", "danger">>
FlashErroEditar == <<"Ocorreu um erro ao editar.", "danger">>

\* buscar_transacao_por_id: SELECT * FROM transacoes WHERE id = ? AND
\* user_id = ?; a dict of the first seven columns, or None.
buscar_transacao_por_id(d, transacao_id, user_id) ==
    LET alvo == WhereIdUser(d.transacoes, transacao_id, user_id)
    IN IF alvo = {} THEN None
       ELSE LET row == CHOOSE t \in alvo : TRUE
            IN Some([id |-> row.id, data |-> row.data, tipo |-> row.tipo,
                     descricao |-> row.descricao, valor |-> row.valor,
                     categoria |-> row.categoria, user_id |-> row.user_id])

\* The rest of editar_transacao() for a POST, once the transaction was
\* found: the form is read and atualizar_transacao is called with seven
\* positional arguments (the last is conta_id).
rota_editar_post(d, transacao_id, user_id, form, falha) ==
    IF ~float_ok(form.valor)
        THEN Resposta(d, FlashErroEditar, "ValueError")
    ELSE IF ~Liga("atualizar_transacao", 7, {})
        THEN Resposta(d, FlashErroEditar, "TypeError")
    ELSE LET r == atualizar_transacao(d, transacao_id, form.tipo, form.descricao,
                                      form.valor.n, form.categoria, user_id, falha)
         IN Resposta(r.db, IF r.val = "True" THEN FlashAtualizada
                           ELSE FlashErroAtualizar, r.capturada)

FormsEditar(cats) ==
    [tipo : Tipos, descricao : Descricoes, valor : {Numero(v) : v \in Valores},
     categoria : cats, conta_id : {"1"}]

\* A session posts its form to /editar/<id>; the route connects and looks the
\* transaction up, and answers at once when there is none.
Editar_busca(s, cats) ==
    /\ sessoes[s].pc = "inicio"
    /\ \E u \in Ids(db.usuarios), id \in TransIds, form \in FormsEditar(cats) :
        LET transacao == buscar_transacao_por_id(db, id, u)
            pedido == [user_id |-> u, transacao_id |-> id, form |-> form]
        IN IF transacao = None
              THEN /\ saida' = Saida("editar_transacao", pedido,
                                     [flash |-> FlashNaoEncontrada], SemErro)
                   /\ sessoes' = sessoes
                   /\ conexoes' = rota_com_finally(conexoes, "none")
              ELSE /\ saida' = Saida("buscar_transacao_por_id", pedido,
                                     [transacao |-> transacao], SemErro)
                   /\ sessoes' = [sessoes EXCEPT ![s] =
                                     [pc |-> "achou", pedido |-> pedido]]
                   /\ conexoes' = connect(conexoes, "none").abertas
    /\ UNCHANGED db

\* The route goes on to the update, answers, and closes its connection.
Editar_atualiza(s) ==
    /\ sessoes[s].pc = "achou"
    /\ \E falha \in BOOLEAN :
        LET pedido == sessoes[s].pedido
            r == rota_editar_post(db, pedido.transacao_id, pedido.user_id,
                                  pedido.form, falha)
        IN /\ db' = r.db
           /\ saida' = Saida("editar_transacao", pedido, [flash |-> r.val], r)
    /\ sessoes' = [sessoes EXCEPT ![s] = [pc |-> "inicio"]]
    /\ conexoes' = close(conexoes, TRUE)

(***************************************************************************)
(* The database after the application has started on a new file            *)
(* (app_web.py lines 19-27: connect() creates the empty tables).           *)
(***************************************************************************)
BancoVazio ==
    [usuarios |-> {}, contas |-> {}, transacoes |-> {},
     seq |-> [usuarios |-> 0, contas |-> 0, transacoes |-> 0]]

SaidaInicial ==
    Saida("connect", [db_file |-> "financas.db"], [retorno |-> "None"], SemErro)

Init ==
    /\ db = BancoVazio
    /\ saida = SaidaInicial
    /\ conexoes = 0
    /\ sessoes = SemPedidos

\* cats: the category labels the calls are made with; dias: the days on which
\* transactions are added.
OpsDoLivro(cats, dias) ==
    \/ Op_criar_conta
    \/ Op_adicionar_transacao(cats, dias)
    \/ Op_atualizar_transacao(cats)
    \/ Op_excluir_transacao
    \/ Op_listar_contas_com_saldo
    \/ Op_calcular_resumo

\* The queries that return rows.
OpsDeLeitura ==
    \/ Op_ler_transacoes
    \/ Op_relatorio_por_categoria

Next ==
    \/ Op_registrar_usuario
    \/ OpsDoLivro(Categorias, Datas)
    \/ OpsDeLeitura
    \/ Rota_adicionar(Datas)
    \/ Rota_contas
    \/ Rota_excluir_transacao
    \/ Rota_index

Spec == Init /\ [][Next]_vars

(***************************************************************************)
(* The methods applied to a ledger that already holds rows: a database     *)
(* file with two users, their accounts and up to two transactions, every   *)
(* row one that satisfies the schema, with the sign the methods give a     *)
(* new amount and the account of its own user. The rows and the calls of   *)
(* SpecLivro use one category label, and its additions happen on one day.  *)
(***************************************************************************)
UmaCategoria == {"mercado"}
UmDia == {<<2025, 3, 5>>}

UsuariosDoLivro ==
    {[id |-> i, email |-> <<"user", i>>, senha_hash |-> hashpw("p1", "s1")] : i \in Users}

ContasDoLivro(dono2) ==
    {[id |-> 1, user_id |-> 1, nome |-> "Carteira", saldo_inicial |-> 10,
      tipo_conta |-> "carteira"],
     [id |-> 2, user_id |-> dono2, nome |-> "Cartao", saldo_inicial |-> 0,
      tipo_conta |-> "cartao_de_credito"]}

LinhasDoLivro(id, contas, cats, dias) ==
    {[id |-> id, data |-> strftime_Ymd(dia), tipo |-> tipo, descricao |-> descricao,
      valor |-> IF tipo = "despesa" THEN -m ELSE m,
      categoria |-> categoria, user_id |-> c.user_id, conta_id |-> c.id] :
        dia \in dias, tipo \in Tipos, descricao \in Descricoes, m \in 1..MaxValor,
        categoria \in cats, c \in contas}

Livros(cats, dias) ==
    UNION {
        LET base == [usuarios |-> UsuariosDoLivro, contas |-> ContasDoLivro(dono2),
                     transacoes |-> {},
                     seq |-> [usuarios |-> 2, contas |-> 2, transacoes |-> 2]]
        IN {base}
           \cup {[base EXCEPT !.transacoes = {t1}] :
                    t1 \in LinhasDoLivro(1, base.contas, cats, dias)}
           \cup {[base EXCEPT !.transacoes = {t1, t2}] :
                    t1 \in LinhasDoLivro(1, base.contas, cats, dias),
                    t2 \in LinhasDoLivro(2, base.contas, cats, dias)}
        : dono2 \in Users}

InitLivro ==
    /\ db \in Livros(UmaCategoria, Datas)
    /\ saida = SaidaInicial
    /\ conexoes = 0
    /\ sessoes = SemPedidos

NextLivro == OpsDoLivro(UmaCategoria, UmDia)

SpecLivro == InitLivro /\ [][NextLivro]_vars

\* The routes on such a ledger, its transactions of one day.
InitRotas ==
    /\ db \in Livros(UmaCategoria, UmDia)
    /\ saida = SaidaInicial
    /\ conexoes = 0
    /\ sessoes = SemPedidos

NextRotas ==
    \/ Rota_adicionar(UmDia)
    \/ Rota_contas
    \/ Rota_excluir_transacao
    \/ Rota_index

SpecRotas == InitRotas /\ [][NextRotas]_vars

\* Two sessions edit, and a third request deletes, on such a ledger.
NextEdicao ==
    \/ \E s \in Sessoes : Editar_busca(s, UmaCategoria)
    \/ \E s \in Sessoes : Editar_atualiza(s)
    \/ Rota_excluir_transacao

SpecEdicao == InitRotas /\ [][NextEdicao]_vars

(***************************************************************************)
(* The queries that return rows, applied to a ledger. ler_transacoes reads *)
(* the ledgers of SpecLivro. relatorio_por_categoria reads ledgers of two  *)
(* users with one account each and up to two transactions of any day,      *)
(* category and amount up to MaxMontante.                                  *)
(***************************************************************************)
NextLeitura == Op_ler_transacoes

SpecLeitura == InitLivro /\ [][NextLeitura]_vars

MaxMontante == 2   \* the amounts of the rows reported range over 1..MaxMontante

LinhasDeRelatorio(id, contas) ==
    {[id |-> id, data |-> strftime_Ymd(dia), tipo |-> tipo, descricao |-> "d1",
      valor |-> IF tipo = "despesa" THEN -m ELSE m,
      categoria |-> categoria, user_id |-> c.user_id, conta_id |-> c.id] :
        dia \in Datas, tipo \in Tipos, m \in 1..MaxMontante,
        categoria \in Categorias, c \in contas}

LivrosDeRelatorio ==
    LET base == [usuarios |-> UsuariosDoLivro, contas |-> ContasDoLivro(2),
                 transacoes |-> {},
                 seq |-> [usuarios |-> 2, contas |-> 2, transacoes |-> 2]]
    IN {base}
       \cup {[base EXCEPT !.transacoes = {t1}] :
                t1 \in LinhasDeRelatorio(1, base.contas)}
       \cup {[base EXCEPT !.transacoes = {t1, t2}] :
                t1 \in LinhasDeRelatorio(1, base.contas),
                t2 \in LinhasDeRelatorio(2, base.contas)}

InitRelatorio ==
    /\ db \in LivrosDeRelatorio
    /\ saida = SaidaInicial
    /\ conexoes = 0
    /\ sessoes = SemPedidos

NextRelatorio == Op_relatorio_por_categoria

SpecRelatorio == InitRelatorio /\ [][NextRelatorio]_vars

(***************************************************************************)
(* The writes of one user beside the reads of another: the calls that      *)
(* change the ledger, and the listing of accounts, on ledgers whose        *)
(* transactions are of two days, a year apart.                             *)
(***************************************************************************)
DoisDias == {<<2024, 3, 5>>, <<2025, 3, 5>>}

InitIsolamento ==
    /\ db \in Livros(UmaCategoria, DoisDias)
    /\ saida = SaidaInicial
    /\ conexoes = 0
    /\ sessoes = SemPedidos

NextIsolamento ==
    \/ Op_criar_conta
    \/ Op_adicionar_transacao(UmaCategoria, UmDia)
    \/ Op_atualizar_transacao(UmaCategoria)
    \/ Op_excluir_transacao
    \/ Op_listar_contas_com_saldo

SpecIsolamento == InitIsolamento /\ [][NextIsolamento]_vars

(***************************************************************************)
(* The process from its start: the start-up code, then requests to the     *)
(* routes, any of which may find that connect() raises. A route answers an *)
(* exception with its error message and leaves the database as it was.     *)
(***************************************************************************)
Inicio ==
    /\ saida.op = "processo"
    /\ \E passo \in PassosDeConnect :
        /\ db' = db
        /\ saida' = Saida("inicio", [db_file |-> "financas.db"],
                          [retorno |-> "None"],
                          [capturada |-> connect(conexoes, passo).exc,
                           lancada |-> "none"])
        /\ conexoes' = inicio(conexoes, passo)
        /\ UNCHANGED sessoes

\* What each route answers from its `except Exception` clause.
ErroDaRota ==
    [adicionar |-> [flash |-> FlashErroAdicionar],
     contas |-> [flash |-> <<"Erro ao carregar contas.", "danger">>],
     rota_excluir_transacao |-> [flash |-> <<"Ocorreu um erro ao excluir.", "danger">>],
     index |-> [pagina |-> [status |-> 500, capturada |-> "OperationalError"]]]

Rota_sem_conexao ==
    /\ saida.op # "processo"
    /\ \E rota \in DOMAIN ErroDaRota, u \in Ids(db.usuarios),
          passo \in PassosDeConnect \ {"none"} :
        /\ db' = db
        /\ saida' = Saida(rota, [user_id |-> u, passo |-> passo],
                          ErroDaRota[rota],
                          [capturada |-> connect(conexoes, passo).exc,
                           lancada |-> "none"])
        /\ conexoes' = rota_com_finally(conexoes, passo)
        /\ UNCHANGED sessoes

InitProcesso ==
    /\ db \in Livros(UmaCategoria, UmDia)
    /\ saida = Saida("processo", [db_file |-> "financas.db"], [retorno |-> "None"],
                     SemErro)
    /\ conexoes = 0
    /\ sessoes = SemPedidos

NextProcesso ==
    \/ Inicio
    \/ Rota_sem_conexao
    \/ (saida.op # "processo" /\ NextRotas)

SpecProcesso == InitProcesso /\ [][NextProcesso]_vars

(***************************************************************************)
(* The claims.                                                             *)
(***************************************************************************)
\* The step was made by a call of one of these operations.
Chamou(ops) == saida'.op \in ops

\* The rows of the ledger a call (transacao_id, user_id) is about.
Alvo(id, u) == {t \in db.transacoes : t.id = id /\ t.user_id = u}

\* The sum of the amounts of the rows of S, by ascending id.
RECURSIVE Total(_)
Total(S) ==
    IF S = {} THEN 0
    ELSE LET ultimo == CHOOSE x \in S : \A y \in S : y.id <= x.id
         IN Total(S \ {ultimo}) + ultimo.valor

\* The number a sequence of decimal digits denotes.
RECURSIVE NumeroDe(_)
NumeroDe(ds) ==
    IF ds = <<>> THEN 0
    ELSE 10 * NumeroDe(SubSeq(ds, 1, Len(ds) - 1)) + ds[Len(ds)]

\* C1: every stored transaction of kind despesa has amount <= 0 and every
\* stored transaction of kind receita has amount >= 0, whatever sign the
\* caller of create_transaction or update_transaction supplied.
C1_SinalPorTipo ==
    \A t \in db.transacoes :
        /\ t.tipo = "despesa" => t.valor <= 0
        /\ t.tipo = "receita" => t.valor >= 0

\* C2: list_accounts_with_balance(user) reports, for each account of the
\* user and for no other, the account's initial balance plus the sum of the
\* amounts of the transactions whose account id is that account (the initial
\* balance alone when there is none), and that is what a call returns.
C2_SaldoDasContas ==
    /\ \A u \in Users :
        LET lista == listar_contas_com_saldo(db, u)
            minhas == {c \in db.contas : c.user_id = u}
        IN /\ Len(lista) = Cardinality(minhas)
           /\ \A c \in minhas : \E i \in 1..Len(lista) :
                /\ lista[i].id = c.id
                /\ lista[i].nome = c.nome
                /\ lista[i].saldo_atual =
                     c.saldo_inicial + Total({t \in db.transacoes : t.conta_id = c.id})
    /\ saida.op = "listar_contas_com_saldo"
          => saida.val.lista = listar_contas_com_saldo(db, saida.args.user_id)

\* C2's case: user 1 was listed two accounts, one with transactions that
\* move its balance and one with none.
C2_Witness ==
    /\ saida.op = "listar_contas_com_saldo"
    /\ saida.args.user_id = 1
    /\ Len(saida.val.lista) = 2
    /\ saida.val.lista[1].saldo_atual # 10
    /\ saida.val.lista[2].saldo_atual = 0
    /\ \A t \in db.transacoes : t.conta_id = 1

\* C3: update_transaction(id, ..., user_id) and delete_transaction(id,
\* user_id) touch at most the one transaction whose id and user id both
\* match. With no such row the store is left as it was; with one, every
\* other transaction, every account and every user is left as it was, an
\* update keeps the row with its id, date and user, and a delete adds none.
C3_SoALinhaDoDono ==
    [][Chamou({"atualizar_transacao", "excluir_transacao"}) =>
        LET alvo == Alvo(saida'.args.transacao_id, saida'.args.user_id)
        IN /\ Cardinality(alvo) <= 1
           /\ alvo = {} => db' = db
           /\ db'.usuarios = db.usuarios
           /\ db'.contas = db.contas
           /\ \A t \in db.transacoes \ alvo : t \in db'.transacoes
           /\ \A t \in db'.transacoes \ db.transacoes :
                /\ saida'.op = "atualizar_transacao"
                /\ \E a \in alvo : t.id = a.id /\ t.data = a.data /\ t.user_id = a.user_id
           /\ saida'.op = "atualizar_transacao"
                => Ids(db'.transacoes) = Ids(db.transacoes)
      ]_vars

\* C3's case: an update changed the row of its user while the ledger held a
\* row of another user.
C3_Witness ==
    /\ saida.op = "atualizar_transacao"
    /\ saida.val.retorno = "True"
    /\ \E t \in db.transacoes :
          t.id = saida.args.transacao_id /\ t.user_id = saida.args.user_id
    /\ \E t \in db.transacoes : t.user_id # saida.args.user_id

\* C4: update_transaction and delete_transaction return true exactly when
\* the statement wrote a row, that is when a row with that id and that user
\* existed and the statement ran: for an id of another user and for an id
\* that does not exist both return false, neither raises, and a call that
\* returns false leaves the store as it was.
C4_VerdadeiroSeEscreveu ==
    [][Chamou({"atualizar_transacao", "excluir_transacao"}) =>
        LET alvo == Alvo(saida'.args.transacao_id, saida'.args.user_id)
        IN /\ saida'.lancada = "none"
           /\ saida'.val.retorno \in {"True", "False"}
           /\ alvo = {} => saida'.val.retorno = "False"
           /\ (alvo # {} /\ saida'.capturada = "none") => saida'.val.retorno = "True"
           /\ saida'.val.retorno = "False" => db' = db
           /\ (saida'.val.retorno = "True" /\ saida'.op = "excluir_transacao")
                => db'.transacoes = db.transacoes \ alvo /\ alvo # {}
      ]_vars

\* C4's case: a delete was asked for a row that exists and belongs to
\* another user, and returned false.
C4_Witness ==
    /\ saida.op = "excluir_transacao"
    /\ saida.val.retorno = "False"
    /\ saida.capturada = "none"
    /\ \E t \in db.transacoes :
          t.id = saida.args.transacao_id /\ t.user_id # saida.args.user_id

\* C5: when create_transaction fails and inserts nothing, the store is
\* unchanged, the caller does not crash, and what the caller gets differs
\* from what it gets from a call that succeeded (None, the method's return
\* after a committed INSERT).
C5_FalhaReportada ==
    [][(Chamou({"adicionar_transacao"}) /\ db'.transacoes = db.transacoes) =>
        /\ db' = db
        /\ saida'.lancada = "none"
        /\ saida'.val.retorno # "None"
      ]_vars

\* SQLite's conversion of the text of conta_id to the INTEGER of the column.
sqlite_inteiro(texto) == IF texto = "1" THEN 1 ELSE IF texto = "2" THEN 2 ELSE 0

\* C6: a create_transaction request of a logged-in user that carries a
\* numeric amount, a valid kind and the id of an account stores exactly one
\* new transaction, with that kind, description, category, user and account,
\* the normalized amount and the server's date, and changes no other.
C6_UmaNovaTransacao ==
    [][(/\ Chamou({"adicionar"})
        /\ float_ok(saida'.args.form.valor)
        /\ sqlite_inteiro(saida'.args.form.conta_id) \in Ids(db.contas)) =>
        LET u == saida'.args.user_id
            form == saida'.args.form
            hoje == saida'.args.hoje
        IN \E t \in db'.transacoes \ db.transacoes :
              /\ db'.transacoes = db.transacoes \cup {t}
              /\ t.tipo = form.tipo
              /\ t.descricao = form.descricao
              /\ t.categoria = form.categoria
              /\ t.user_id = u
              /\ t.conta_id = sqlite_inteiro(form.conta_id)
              /\ t.valor = (IF form.tipo = "despesa" THEN -Abs(form.valor.n)
                            ELSE Abs(form.valor.n))
              /\ <<NumeroDe(t.data[1]), NumeroDe(t.data[2]), NumeroDe(t.data[3])>> = hoje
      ]_vars

\* C7: a create_transaction request that supplies no account id (the field
\* empty or missing) is rejected: the store is unchanged and the caller is
\* given an error, never a success; when the rest of the form is well formed
\* and no account is selected, the error is the validation message.
C7_SemContaRejeitada ==
    [][(Chamou({"adicionar"}) /\ saida'.args.form.conta_id \in {"", AUSENTE}) =>
        /\ db' = db
        /\ saida'.val.flash[2] = "danger"
        /\ (saida'.args.form.conta_id = "" /\ float_ok(saida'.args.form.valor))
              => saida'.val.flash = FlashContaNaoSelecionada
      ]_vars

\* C7's case: a request with a numeric amount and no account selected was
\* answered with the validation message.
C7_Witness ==
    /\ saida.op = "adicionar"
    /\ saida.args.form.conta_id = ""
    /\ float_ok(saida.args.form.valor)
    /\ saida.val.flash = FlashContaNaoSelecionada
    /\ db.transacoes # {}

\* C8: whenever create_account is reported as a success, an account with
\* that user, name, kind and initial balance is stored and is listed by
\* list_accounts_with_balance for that user.
C8_SucessoSoComConta ==
    [][(Chamou({"contas"}) /\ saida'.val.flash = FlashContaCriada) =>
        LET u == saida'.args.user_id
            form == saida'.args.form
            saldo == IF form.tipo_conta = "cartao_de_credito" THEN 0
                     ELSE form.saldo_inicial.n
        IN \E c \in db'.contas :
              /\ c.user_id = u
              /\ c.nome = form.nome
              /\ c.tipo_conta = form.tipo_conta
              /\ c.saldo_inicial = saldo
              /\ \E i \in 1..Len(listar_contas_com_saldo(db', u)) :
                    listar_contas_com_saldo(db', u)[i].id = c.id
      ]_vars

\* C9: an account of kind cartao_de_credito created through create_account
\* is stored with initial balance 0 whatever balance the caller supplied,
\* and an account of another kind with the balance supplied.
C9_SaldoInicialDaConta ==
    [][(/\ Chamou({"contas"})
        /\ saida'.args.form.nome # ""
        /\ saida'.args.form.tipo_conta # ""
        /\ saida'.args.form.saldo_inicial.forma = "numero") =>
        LET form == saida'.args.form
        IN \E c \in db'.contas \ db.contas :
              /\ c.tipo_conta = form.tipo_conta
              /\ c.tipo_conta = "cartao_de_credito" => c.saldo_inicial = 0
              /\ c.tipo_conta # "cartao_de_credito"
                    => c.saldo_inicial = form.saldo_inicial.n
      ]_vars

\* The transaction t of user u is of the period: of month mes when one is
\* given, and of year ano when one is given.
DoPeriodo(t, u, mes, ano) ==
    /\ t.user_id = u
    /\ mes # None => NumeroDe(t.data[2]) = mes[1]
    /\ ano # None => NumeroDe(t.data[1]) = ano[1]

\* C10: summary(user, month?, year?) is (total_income, total_expense, net):
\* the sums of the user's receita and of the user's despesa amounts of the
\* period, 0 for a sum over nothing, total_expense <= 0, and net their sum;
\* with no transaction in the period it is (0, 0, 0).
C10_Resumo ==
    /\ \A u \in Users, mes \in Meses, ano \in Anos :
        LET r == calcular_resumo(db, u, mes, ano)
            receitas == {t \in db.transacoes :
                            t.tipo = "receita" /\ DoPeriodo(t, u, mes, ano)}
            despesas == {t \in db.transacoes :
                            t.tipo = "despesa" /\ DoPeriodo(t, u, mes, ano)}
        IN /\ r[1] = Total(receitas)
           /\ r[2] = Total(despesas)
           /\ r[2] <= 0
           /\ r[3] = Total(receitas) + Total(despesas)
           /\ (receitas = {} /\ despesas = {}) => r = <<0, 0, 0>>
    /\ saida.op = "calcular_resumo"
          => saida.val.resumo =
                calcular_resumo(db, saida.args.user_id, saida.args.mes, saida.args.ano)

\* C10's case: the summary of March 2024 was asked for a user who has an
\* income in that month and an expense in another.
C10_Witness ==
    /\ saida.op = "calcular_resumo"
    /\ saida.args = [user_id |-> 1, mes |-> Some(3), ano |-> Some(2024)]
    /\ saida.val.resumo[1] > 0
    /\ saida.val.resumo[2] = 0
    /\ \E t \in db.transacoes :
          t.user_id = 1 /\ t.tipo = "despesa" /\ NumeroDe(t.data[2]) = 4

\* C11: by_category(user, month?, year?) has one entry per category label
\* that has a despesa of the user in the period, its total the sum of those
\* amounts; receitas add nothing, a label without such a despesa is absent,
\* and the entries are in ascending order of total. That is what a call
\* returns.
C11_PorCategoria ==
    /\ \A u \in Users, mes \in Meses, ano \in Anos :
        LET r == relatorio_por_categoria(db, u, mes, ano)
            despesas(c) == {t \in db.transacoes :
                               /\ t.tipo = "despesa"
                               /\ t.categoria = c
                               /\ DoPeriodo(t, u, mes, ano)}
        IN /\ \A c \in Categorias :
                Cardinality({i \in 1..Len(r) : r[i].categoria = c})
                    = (IF despesas(c) = {} THEN 0 ELSE 1)
           /\ \A i \in 1..Len(r) :
                /\ r[i].categoria \in Categorias
                /\ r[i].total = Total(despesas(r[i].categoria))
           /\ \A i \in 1..Len(r), j \in 1..Len(r) : i < j => r[i].total <= r[j].total
    /\ saida.op = "relatorio_por_categoria"
          => saida.val.relatorio =
                relatorio_por_categoria(db, saida.args.user_id, saida.args.mes,
                                        saida.args.ano)

\* C11's case: the report of a user who has expenses of different totals in
\* two categories was asked, and the larger expense came first.
C11_Witness ==
    /\ saida.op = "relatorio_por_categoria"
    /\ Len(saida.val.relatorio) = 2
    /\ saida.val.relatorio[1].total < saida.val.relatorio[2].total
    /\ saida.val.relatorio[1].categoria = "mercado"

\* C12: list_transactions(user, month?, year?) returns exactly the user's
\* transactions of the period, each once, with its stored fields and the
\* name of its account: a month alone matches that month of every year, a
\* year alone every month of that year, both their intersection and neither
\* every transaction of the user. That is what a call returns.
C12_ListaFiltrada ==
    /\ \A u \in Users, mes \in Meses, ano \in Anos :
        LET r == ler_transacoes(db, u, mes, ano)
            doPeriodo == {t \in db.transacoes : DoPeriodo(t, u, mes, ano)}
        IN /\ Len(r) = Cardinality(doPeriodo)
           /\ \A t \in doPeriodo : \E i \in 1..Len(r) : r[i].id = t.id
           /\ \A i \in 1..Len(r) : \E t \in doPeriodo :
                /\ r[i].id = t.id
                /\ r[i].data = t.data
                /\ r[i].tipo = t.tipo
                /\ r[i].descricao = t.descricao
                /\ r[i].valor = t.valor
                /\ r[i].categoria = t.categoria
                /\ r[i].user_id = u
                /\ r[i].conta_id = t.conta_id
                /\ \E c \in db.contas : c.id = t.conta_id /\ r[i].conta_nome = c.nome
    /\ saida.op = "ler_transacoes"
          => saida.val.transacoes =
                ler_transacoes(db, saida.args.user_id, saida.args.mes, saida.args.ano)

\* C12's case: user 1, who has a transaction of March 2025 and one of April
\* 2024, asked for month 3 of every year and was given the first alone.
C12_Witness ==
    /\ saida.op = "ler_transacoes"
    /\ saida.args = [user_id |-> 1, mes |-> Some(3), ano |-> None]
    /\ Len(saida.val.transacoes) = 1
    /\ NumeroDe(saida.val.transacoes[1].data[1]) = 2025
    /\ \E t \in db.transacoes :
          t.user_id = 1 /\ NumeroDe(t.data[2]) = 4 /\ NumeroDe(t.data[1]) = 2024

\* The day a stored date denotes, as one number (year, month, day).
DiaDe(data) ==
    NumeroDe(data[1]) * 10000 + NumeroDe(data[2]) * 100 + NumeroDe(data[3])

\* s is ordered by date descending, transactions of one date by ascending id.
MaisNovoPrimeiro(s) ==
    \A i \in 1..Len(s), j \in 1..Len(s) :
        i < j => \/ DiaDe(s[i].data) > DiaDe(s[j].data)
                 \/ /\ DiaDe(s[i].data) = DiaDe(s[j].data)
                    /\ s[i].id < s[j].id

SaldoDe(c) == c.saldo_inicial + Total({t \in db.transacoes : t.conta_id = c.id})

\* C14: for a user who has at least one account the dashboard is computed
\* and reports two figures that between them count every account once: the
\* cash total, the signed sum of the balances of the accounts that are not
\* credit cards, and the credit-card owed total, the sum of |balance| over
\* the credit-card accounts.
C14_DoisTotais ==
    (saida.op = "index" /\ \E c \in db.contas : c.user_id = saida.args.user_id) =>
        LET minhas == {c \in db.contas : c.user_id = saida.args.user_id}
            saldos == {[id |-> c.id, valor |-> SaldoDe(c)] :
                          c \in {x \in minhas : x.tipo_conta # "cartao_de_credito"}}
            faturas == {[id |-> c.id, valor |-> Abs(SaldoDe(c))] :
                          c \in {x \in minhas : x.tipo_conta = "cartao_de_credito"}}
        IN /\ saida.val.pagina.status = 200
           /\ saida.val.pagina.saldo_total_dinheiro = Total(saldos)
           /\ saida.val.pagina.total_faturas = Total(faturas)

\* C15: register(email, password) with an email that is already registered
\* reports false whenever the store runs the statement, and in every case
\* leaves the user rows (id, email, password hash) and the rest of the store
\* as they were; after any sequence of registrations no two users share an
\* email.
C15_EmailJaRegistrado ==
    [][/\ (/\ Chamou({"registrar_usuario"})
           /\ \E u \in db.usuarios : u.email = saida'.args.email) =>
            /\ db' = db
            /\ saida'.lancada = "none" => saida'.val.retorno = "False"
            /\ saida'.val.retorno # "True"
       /\ \A u1 \in db'.usuarios, u2 \in db'.usuarios :
            u1.email = u2.email => u1 = u2
      ]_vars

\* C15's case: with two users registered, a registration with the email of
\* one of them was refused on the UNIQUE constraint.
C15_Witness ==
    /\ saida.op = "registrar_usuario"
    /\ saida.val.retorno = "False"
    /\ saida.capturada = "IntegrityError"
    /\ Cardinality(db.usuarios) = 2
    /\ \E u \in db.usuarios : u.email = saida.args.email

\* C16: every connection a call opens, the start-up table creation
\* included, is closed on every exit path of that call, an exception raised
\* while connecting included: no connection is open once the call has ended.
C16_ConexoesFechadas == conexoes = 0

\* C17: in every reachable state each stored transaction references an
\* existing user and an existing account, and the account is owned by the
\* user who owns the transaction: no call of create_transaction or
\* update_transaction stores the id of another user's account.
C17_ContaDoMesmoUsuario ==
    \A t \in db.transacoes :
        /\ \E u \in db.usuarios : u.id = t.user_id
        /\ \E c \in db.contas : c.id = t.conta_id /\ c.user_id = t.user_id

\* C17's case: user 2 updated a transaction of theirs while the ledger held
\* accounts of both users and a transaction of user 1.
C17_Witness ==
    /\ saida.op = "atualizar_transacao"
    /\ saida.val.retorno = "True"
    /\ \E t \in db.transacoes : t.id = saida.args.transacao_id /\ t.user_id = 2
    /\ \E t \in db.transacoes : t.user_id = 1
    /\ \E c \in db.contas : c.user_id = 1
    /\ \E c \in db.contas : c.user_id = 2

\* What user b observes of the store d: the results of list_transactions,
\* summary and by_category for every period, and list_accounts_with_balance.
Observa(d, b) ==
    [transacoes |-> [mes \in Meses, ano \in Anos |-> ler_transacoes(d, b, mes, ano)],
     resumo |-> [mes \in Meses, ano \in Anos |-> calcular_resumo(d, b, mes, ano)],
     relatorio |-> [mes \in Meses, ano \in Anos |->
                       relatorio_por_categoria(d, b, mes, ano)],
     contas |-> listar_contas_com_saldo(d, b)]

\* C18: a create, update or delete of a transaction, or a creation of an
\* account, made for one user changes nothing of what any other user
\* observes through list_transactions, summary, by_category and
\* list_accounts_with_balance; and no read for a user returns a transaction
\* or an account owned by another user (stated at each call that lists a
\* user's accounts, which any state allows: of the list returned and of the
\* transactions the same state gives that user).
C18_IsolamentoEntreUsuarios ==
    [][/\ (/\ Chamou({"adicionar_transacao", "atualizar_transacao",
                      "excluir_transacao", "criar_conta"})
           /\ db' # db) =>
            \A b \in Users \ {saida'.args.user_id} : Observa(db', b) = Observa(db, b)
       /\ Chamou({"listar_contas_com_saldo"}) =>
            LET u == saida'.args.user_id
                contas == saida'.val.lista
                lidas == ler_transacoes(db, u, None, None)
            IN /\ \A i \in 1..Len(contas) : \E c \in db.contas :
                     c.id = contas[i].id /\ c.user_id = u
               /\ \A i \in 1..Len(lidas) : lidas[i].user_id = u
               /\ Len(lidas) = Cardinality({t \in db.transacoes : t.user_id = u})
      ]_vars

\* C18's case: user 1 deleted a transaction of theirs while user 2 had a
\* transaction and an account to observe.
C18_Witness ==
    /\ saida.op = "excluir_transacao"
    /\ saida.val.retorno = "True"
    /\ saida.args.user_id = 1
    /\ \E t \in db.transacoes : t.user_id = 2
    /\ \E c \in db.contas : c.user_id = 2

\* C19: when sessions edit the same transaction at once, each update that
\* finds the transaction is applied and reported as a success, never rejected
\* or detected as a conflict, and leaves the stored transaction with all the
\* field values of that update (so the last update wins whole) and with an
\* amount whose sign follows its type; an update whose transaction was deleted
\* after the lookup changes no row and is not reported as a success. A failure
\* of the store itself (OperationalError) is left aside.
C19_EdicaoConcorrente ==
    [][\A s \in Sessoes :
          (/\ sessoes[s].pc = "achou"
           /\ sessoes'[s].pc = "inicio"
           /\ saida'.capturada # "OperationalError") =>
             LET p == sessoes[s].pedido
                 antes == WhereIdUser(db.transacoes, p.transacao_id, p.user_id)
                 depois == WhereIdUser(db'.transacoes, p.transacao_id, p.user_id)
             IN IF antes = {}
                   THEN /\ db' = db
                        /\ saida'.val.flash # FlashAtualizada
                   ELSE /\ saida'.val.flash = FlashAtualizada
                        /\ Cardinality(depois) = 1
                        /\ \A t \in depois :
                              /\ t.tipo = p.form.tipo
                              /\ t.descricao = p.form.descricao
                              /\ t.categoria = p.form.categoria
                              /\ Abs(t.valor) = Abs(p.form.valor.n)
                              /\ (t.tipo = "despesa" => t.valor < 0)
                              /\ (t.tipo = "receita" => t.valor > 0)
      ]_vars

====
